---- MODULE Spec2Model ----
(***************************************************************************)
(* A model of the RawTile class of iipsrv (src/RawTile.h): a tile carries  *)
(* geometry and placement metadata and an untyped data pointer into the    *)
(* free store.  The free store is modelled explicitly (one record for each *)
(* array ever obtained with new[] or supplied by an external producer), so *)
(* that releases, double releases, element-type dispatch and out-of-bounds *)
(* copies are observable.                                                  *)
(***************************************************************************)
EXTENDS Integers, Sequences, FiniteSets, TLC

\* ------------------------------------------------------------------ bounds
NumTiles   == 2      \* tile objects that may exist at the same time
MaxBufs    == 2      \* arrays the free store hands out in one run
MaxW       == 2      \* widths  1..MaxW  given to the constructor and crop
MaxH       == 1      \* heights 1..MaxH  given to the constructor and crop
MaxSize    == 1      \* explicit byte sizes 1..MaxSize given to allocate()
MaxChan    == 1      \* channel counts 1..MaxChan of the image
MaxRW      == 4
MaxRH      == 4
MaxRChan   == 2
MaxIdent   == 1
MaxOps     == 5      \* operations in one run

\* --------------------------------------------------------- program constants
NULL    == 0             \* the null data pointer
Indet   == 255           \* stands for an indeterminate (never written) byte

Tiles   == 1..NumTiles
BufIds  == 1..MaxBufs
Bpcs    == {8, 16, 32}
Chans   == 1..MaxChan
SampleTypes == {"FIXEDPOINT", "FLOATINGPOINT"}
Filenames == {""}

VARIABLES
  image,     \* channels, bpc and sample type of the image the tiles are cut from
  tiles,     \* tiles[t]: the fields of tile object t
  alive,     \* the tile objects that have been constructed and not yet destroyed
  deleted,   \* tile objects on which `delete this` ran and that are still in use
  heap,      \* heap[b]: the array behind data pointer b
  nbuf,      \* number of arrays handed out so far
  aborted,   \* the process was terminated (std::terminate or a detected bad free)
  xfer,      \* the last ownership transfer: from, to and the buffer moved
  last,      \* what the last operation did (history, read by the properties only)
  steps,     \* number of operations so far
  copier     \* a second thread copy-constructing a tile: where it is, what it read

vars == <<image, tiles, alive, deleted, heap, nbuf, aborted, xfer, last, steps, copier>>

Min(a, b) == IF a < b THEN a ELSE b

\* ------------------------------------------------------------------- tiles
\* The state RawTile's main constructor leaves behind.
NewTile(tn, res, hs, vs, w, h, c, b) ==
  [ filename        |-> "",
    width           |-> w,
    height          |-> h,
    channels        |-> c,
    bpc             |-> b,
    sampleType      |-> "FIXEDPOINT",
    compressionType |-> "RAW",
    quality         |-> 0,
    timestamp       |-> 0,
    tileNum         |-> tn,
    resolution      |-> res,
    hSequence       |-> hs,
    vSequence       |-> vs,
    capacity        |-> 0,
    dataLength      |-> 0,
    memoryManaged   |-> 1,
    data            |-> NULL ]

\* The slot of a tile object that does not exist.
NoTile == NewTile(0, 0, 0, 0, 0, 0, 0, 0)

\* -------------------------------------------------------------- free store
NoBuf == [ state |-> "unused", etype |-> "none", size |-> 0, ext |-> FALSE,
           bytes |-> <<>> ]

\* Element type new[] is called with in allocate().
AllocType(bpc, sampleType) ==
  IF bpc = 32 THEN (IF sampleType = "FLOATINGPOINT" THEN "float" ELSE "int")
  ELSE IF bpc = 16 THEN "unsigned short"
  ELSE "unsigned char"

\* Element type delete[] is called with in deallocate().
DeallocType(bpc, sampleType) ==
  IF bpc = 32 THEN (IF sampleType = "FLOATINGPOINT" THEN "float" ELSE "unsigned int")
  ELSE IF bpc = 16 THEN "unsigned short"
  ELSE "unsigned char"

\* Bytes in one element of the array allocate() creates.
ElemBytes(bpc) == IF bpc = 32 THEN 4 ELSE IF bpc = 16 THEN 2 ELSE 1

\* The size allocate() uses: the argument, or the geometry's size when it is 0.
\* The product is a uint32_t; within the bounds of this model it stays below
\* 2^32, so no reduction is applied.
AllocSize(t, size) ==
  IF size = 0 THEN t.width * t.height * t.channels * (t.bpc \div 8) ELSE size

\* Bytes really obtained: new T[size / sizeof(T)].
AllocBytes(t, size) == (AllocSize(t, size) \div ElemBytes(t.bpc)) * ElemBytes(t.bpc)

\* The array new[] returns: its contents are indeterminate.
FreshBuf(t, size) ==
  [ state |-> "live", etype |-> AllocType(t.bpc, t.sampleType),
    size |-> AllocBytes(t, size), ext |-> FALSE,
    bytes |-> [i \in 1..AllocBytes(t, size) |-> Indet] ]

\* An allocate that also starts the tile's data over.
AllocTileResetsLength(t, size, b) ==
  [t EXCEPT !.data = b, !.memoryManaged = 1, !.capacity = AllocSize(t, size),
            !.dataLength = 0]

\* allocate(size) on tile record t, the new array getting pointer b.
AllocTile(t, size, b) ==
  [t EXCEPT !.data = b, !.memoryManaged = 1, !.capacity = AllocSize(t, size)]

AllocHeap(hp, t, size, b) == [hp EXCEPT ![b] = FreshBuf(t, size)]

\* deallocate(buffer) called on tile record t: the tile's fields afterwards.
\* The assignment buffer = NULL changes the parameter only, never t.data.
DeallocTile(t, buffer) ==
  IF buffer # NULL THEN [t EXCEPT !.capacity = 0, !.dataLength = 0] ELSE t

\* A deallocate that changes the fields and forgets the delete[].
DeallocHeapKeeps(hp, t, buffer) == hp

\* deallocate(buffer) called on tile record t: the free store afterwards.
DeallocHeap(hp, t, buffer) ==
  IF buffer # NULL THEN [hp EXCEPT ![buffer].state = "freed"] ELSE hp

\* What deallocate(buffer), called on tile record t, passes to delete[]: the
\* pointer, the element type of the delete[] expression, and what the free
\* store holds behind the pointer at that moment.
DeallocRel(hp, t, buffer) ==
  IF buffer # NULL
  THEN {[ buf |-> buffer, dtype |-> DeallocType(t.bpc, t.sampleType),
          etype |-> hp[buffer].etype, was |-> hp[buffer].state,
          ext |-> hp[buffer].ext ]}
  ELSE {}

\* memcpy(dst, src, n): the destination array's bytes afterwards.  A read past
\* the end of the source yields an indeterminate byte; a write past the end of
\* the destination does not land in the destination.
Memcpy(dstBytes, srcBytes, n) ==
  [i \in 1..Len(dstBytes) |->
     IF i <= n THEN (IF i <= Len(srcBytes) THEN srcBytes[i] ELSE Indet)
     ELSE dstBytes[i]]

NoLast == [ op |-> "init", t |-> 0, s |-> 0, args |-> <<>>, rel |-> {}, alloc |-> NULL,
            fail |-> FALSE, oobRead |-> FALSE, oobWrite |-> FALSE, role |-> "none" ]

\* An array a tile allocated that no tile's data pointer refers to any more,
\* or one that was released, can never be read again by the class: the model
\* forgets its size and bytes and keeps what the free store knows about it.
\* An external producer's array stays as it is while it is allocated.
Forget(hp, tl) ==
  [b \in BufIds |->
     IF hp[b].state = "live" /\ (hp[b].ext \/ \E t \in Tiles : tl[t].data = b)
     THEN hp[b]
     ELSE [hp[b] EXCEPT !.bytes = <<>>, !.size = 0, !.etype = "none"]]

NoXfer == [ from |-> 0, to |-> 0, buf |-> NULL ]

\* No thread is copying a tile.
NoCopier == [ pc |-> "idle", s |-> 0, ptr |-> NULL, len |-> 0, dst |-> NoTile,
              buf |-> << >>, readReleased |-> FALSE ]

\* An operation on tile t ends whatever transfer t took part in.
Touch(x, t) == IF x.from = t \/ x.to = t THEN NoXfer ELSE x

\* The sample formats an image can have: floating point samples are 32 bit.
Formats ==
  {f \in [channels : Chans, bpc : Bpcs, sampleType : SampleTypes] :
     f.sampleType = "FLOATINGPOINT" => f.bpc = 32}

\* The state after the first tile of the image has been constructed.
Init ==
  /\ image \in Formats
  /\ \E w \in 1..MaxW, h \in 1..MaxH :
       tiles = [t \in Tiles |->
                  IF t = 1 THEN NewTile(0, 0, 0, 0, w, h, image.channels, image.bpc)
                  ELSE NoTile]
  /\ alive = {1}
  /\ deleted = {}
  /\ heap = [b \in BufIds |-> NoBuf]
  /\ nbuf = 0
  /\ aborted = FALSE
  /\ xfer = NoXfer
  /\ last = NoLast
  /\ steps = 0
  /\ copier = NoCopier

\* What an operation named op on tile t (with source tile s) records.
Did(op, t, s) == [NoLast EXCEPT !.op = op, !.t = t, !.s = s]

\* RawTile( tn, res, hs, vs, w, h, c, b ) for a tile of the image; the tiles of
\* one request have different tile numbers.  A new object takes the first
\* free slot: the slots only name the objects.
Construct(t, tn, w, h) ==
  /\ ~aborted
  /\ UNCHANGED copier
  /\ steps < MaxOps
  /\ steps' = steps + 1
  /\ t \notin alive
  /\ \A u \in Tiles : u < t => u \in alive
  /\ tiles' = [tiles EXCEPT ![t] = NewTile(tn, 0, 0, 0, w, h, image.channels, image.bpc)]
  /\ alive' = alive \cup {t}
  /\ xfer' = Touch(xfer, t)
  /\ last' = Did("construct", t, 0)
  /\ UNCHANGED <<image, deleted, heap, nbuf, aborted>>

\* RawTile() with every argument defaulted.
ConstructDefault(t) ==
  /\ ~aborted
  /\ UNCHANGED copier
  /\ steps < MaxOps
  /\ steps' = steps + 1
  /\ t \notin alive
  /\ \A u \in Tiles : u < t => u \in alive
  /\ tiles' = [tiles EXCEPT ![t] = NewTile(0, 0, 0, 0, 0, 0, 0, 0)]
  /\ alive' = alive \cup {t}
  /\ xfer' = Touch(xfer, t)
  /\ last' = Did("constructDefault", t, 0)
  /\ UNCHANGED <<image, deleted, heap, nbuf, aborted>>

\* A producer sets the public field sampleType of a tile of the image that has
\* no buffer yet.
SetSampleType(t) ==
  /\ ~aborted
  /\ UNCHANGED copier
  /\ steps < MaxOps
  /\ steps' = steps + 1
  /\ t \in alive
  /\ tiles[t].data = NULL
  /\ tiles[t].bpc = image.bpc
  /\ tiles[t].sampleType # image.sampleType
  /\ tiles' = [tiles EXCEPT ![t].sampleType = image.sampleType]
  /\ xfer' = Touch(xfer, t)
  /\ last' = Did("setSampleType", t, 0)
  /\ UNCHANGED <<image, alive, deleted, heap, nbuf, aborted>>

\* allocate( size ), called for a tile that does not borrow a buffer: fail is
\* new[] throwing std::bad_alloc.
Allocate(t, size, fail) ==
  /\ ~aborted
  /\ UNCHANGED copier
  /\ steps < MaxOps
  /\ steps' = steps + 1
  /\ t \in alive
  /\ tiles[t].memoryManaged = 1
  /\ fail \/ nbuf < MaxBufs
  /\ IF fail
     THEN /\ last' = [Did("allocate", t, 0) EXCEPT !.args = <<size>>, !.fail = TRUE]
          /\ UNCHANGED <<tiles, heap, nbuf>>
     ELSE /\ tiles' = [tiles EXCEPT ![t] = AllocTile(tiles[t], size, nbuf + 1)]
          /\ heap' = Forget(AllocHeap(heap, tiles[t], size, nbuf + 1), tiles')
          /\ nbuf' = nbuf + 1
          /\ last' = [Did("allocate", t, 0) EXCEPT !.args = <<size>>, !.alloc = nbuf + 1]
  /\ xfer' = Touch(xfer, t)
  /\ UNCHANGED <<image, alive, deleted, aborted>>

\* The byte lengths a producer reports for a buffer of n usable bytes.
Lengths(n) == {k \in 1..n : k = n \/ k <= MaxSize}

\* The bytes a producer writes: byte i of the buffer gets the value i.
Produced(bytes, len) == [i \in 1..Len(bytes) |-> IF i <= len THEN i ELSE bytes[i]]

\* A producer (a decoder) fills the tile's own buffer and sets dataLength.
Populate(t, len) ==
  /\ ~aborted
  /\ UNCHANGED copier
  /\ steps < MaxOps
  /\ steps' = steps + 1
  /\ t \in alive
  /\ tiles[t].memoryManaged = 1
  /\ tiles[t].data # NULL
  /\ heap[tiles[t].data].state = "live"
  /\ len \in Lengths(Min(tiles[t].capacity, heap[tiles[t].data].size))
  /\ tiles' = [tiles EXCEPT ![t].dataLength = len]
  /\ heap' = Forget([heap EXCEPT ![tiles[t].data].bytes = Produced(@, len)], tiles')
  /\ xfer' = Touch(xfer, t)
  /\ last' = Did("populate", t, 0)
  /\ UNCHANGED <<image, alive, deleted, nbuf, aborted>>

\* The array an external producer owns and lends to a tile.
ExternalBuf(n) ==
  [ state |-> "live", etype |-> "external", size |-> n, ext |-> TRUE,
    bytes |-> [i \in 1..n |-> i] ]

\* A producer points a tile without a buffer at an array of its own and clears
\* the ownership flag: data = buf; dataLength = len; memoryManaged = 0.
SetExternal(t, len) ==
  /\ ~aborted
  /\ UNCHANGED copier
  /\ steps < MaxOps
  /\ steps' = steps + 1
  /\ t \in alive
  /\ tiles[t].data = NULL
  /\ nbuf < MaxBufs
  /\ len \in Lengths(AllocSize(tiles[t], 0))
  /\ tiles' = [tiles EXCEPT ![t].data = nbuf + 1, ![t].memoryManaged = 0,
                            ![t].dataLength = len,
                            ![t].capacity = AllocSize(tiles[t], 0)]
  /\ heap' = Forget([heap EXCEPT ![nbuf + 1] = ExternalBuf(AllocSize(tiles[t], 0))], tiles')
  /\ nbuf' = nbuf + 1
  /\ xfer' = Touch(xfer, t)
  /\ last' = [Did("setExternal", t, 0) EXCEPT !.alloc = nbuf + 1]
  /\ UNCHANGED <<image, alive, deleted, aborted>>

\* The caller releases a buffer the tile allocated: t.deallocate( t.data ).
Deallocate(t) ==
  /\ ~aborted
  /\ UNCHANGED copier
  /\ steps < MaxOps
  /\ steps' = steps + 1
  /\ t \in alive
  /\ tiles[t].memoryManaged = 1
  /\ tiles[t].data # NULL
  /\ heap[tiles[t].data].state = "live"
  /\ ~heap[tiles[t].data].ext
  /\ tiles' = [tiles EXCEPT ![t] = DeallocTile(tiles[t], tiles[t].data)]
  /\ heap' = Forget(DeallocHeap(heap, tiles[t], tiles[t].data), tiles')
  /\ xfer' = Touch(xfer, t)
  /\ last' = [Did("deallocate", t, 0) EXCEPT !.rel = DeallocRel(heap, tiles[t], tiles[t].data)]
  /\ UNCHANGED <<image, alive, deleted, nbuf, aborted>>

\* ~RawTile()
Destroy(t) ==
  /\ ~aborted
  /\ UNCHANGED copier
  /\ steps < MaxOps
  /\ steps' = steps + 1
  /\ t \in alive
  /\ tiles' = [tiles EXCEPT ![t] = NoTile]
  /\ heap' = Forget(IF tiles[t].memoryManaged # 0
                    THEN DeallocHeap(heap, tiles[t], tiles[t].data) ELSE heap, tiles')
  /\ alive' = alive \ {t}
  /\ deleted' = deleted \ {t}
  /\ xfer' = IF xfer.from = t
             THEN (IF xfer.to = 0 THEN NoXfer ELSE [xfer EXCEPT !.from = 0])
             ELSE IF xfer.to = t
             THEN (IF xfer.from = 0 THEN NoXfer ELSE [xfer EXCEPT !.to = 0])
             ELSE xfer
  /\ last' = [Did("destroy", t, 0) EXCEPT
                !.rel = IF tiles[t].memoryManaged # 0
                        THEN DeallocRel(heap, tiles[t], tiles[t].data) ELSE {},
                !.alloc = xfer.buf,
                !.role = IF xfer.from = t THEN "movedFrom"
                         ELSE IF xfer.to = t THEN "movedTo" ELSE "none"]
  /\ UNCHANGED <<image, nbuf, aborted>>

\* The scanline loop with the source advanced by the cropped scanline length
\* instead of the original one.
CropBytesPacked(srcBytes, dstSize, h, dlen, slen) ==
  [j \in 1..dstSize |->
     IF dlen > 0 /\ j - 1 < h * dlen
     THEN LET k == ((j - 1) \div dlen) * dlen + ((j - 1) % dlen) + 1
          IN  IF k <= Len(srcBytes) THEN srcBytes[k] ELSE Indet
     ELSE Indet]

\* The bytes the scanline loop of crop() leaves in the new array: h scanlines of
\* dlen bytes, scanline r taken from offset r * slen of the original array.
CropBytes(srcBytes, dstSize, h, dlen, slen) ==
  [j \in 1..dstSize |->
     IF dlen > 0 /\ j - 1 < h * dlen
     THEN LET k == ((j - 1) \div dlen) * slen + ((j - 1) % dlen) + 1
          IN  IF k <= Len(srcBytes) THEN srcBytes[k] ELSE Indet
     ELSE Indet]

\* The scanline loop of crop() reads past the end of an original of srcSize bytes.
CropOobRead(srcSize, h, dlen, slen) ==
  h > 0 /\ dlen > 0 /\ (h - 1) * slen + dlen > srcSize

\* crop( w, h ): fail is the allocation throwing std::bad_alloc.
Crop(t, w, h, fail) ==
  /\ ~aborted
  /\ UNCHANGED copier
  /\ steps < MaxOps
  /\ steps' = steps + 1
  /\ t \in alive
  /\ tiles[t].data # NULL
  /\ heap[tiles[t].data].state = "live"
  /\ fail \/ nbuf < MaxBufs
  /\ LET old    == tiles[t]
         buffer == old.data
         mm     == old.memoryManaged
         len    == w * h * old.channels * (old.bpc \div 8)
         dlen   == w * old.channels * (old.bpc \div 8)
         slen   == old.width * old.channels * (old.bpc \div 8)
         nb     == nbuf + 1
         t1     == AllocTile(old, len, nb)
         heap1  == [AllocHeap(heap, old, len, nb) EXCEPT
                      ![nb].bytes = CropBytes(heap[buffer].bytes, Len(@), h, dlen, slen)]
         t2     == IF mm # 0 THEN DeallocTile(t1, buffer) ELSE t1
         heap2  == IF mm # 0 THEN DeallocHeap(heap1, t1, buffer) ELSE heap1
     IN  IF fail
         THEN /\ last' = [Did("crop", t, 0) EXCEPT !.args = <<w, h>>, !.fail = TRUE]
              /\ UNCHANGED <<tiles, heap, nbuf>>
         ELSE /\ tiles' = [tiles EXCEPT ![t] =
                             [t2 EXCEPT !.capacity = len, !.dataLength = len,
                                        !.width = w, !.height = h]]
              /\ heap' = Forget(heap2, tiles')
              /\ nbuf' = nb
              /\ last' = [Did("crop", t, 0) EXCEPT
                            !.args = <<w, h>>,
                            !.alloc = nb,
                            !.rel = IF mm # 0 THEN DeallocRel(heap1, t1, buffer) ELSE {},
                            !.oobRead = CropOobRead(heap[buffer].size, h, dlen, slen),
                            !.oobWrite = h * dlen > heap1[nb].size]
  /\ xfer' = Touch(xfer, t)
  /\ UNCHANGED <<image, alive, deleted, aborted>>

\* The pixel loop duplicating single bytes instead of whole samples.
TriplicateBytesBytewise(srcBytes, dstSize, len, es) ==
  [j \in 1..dstSize |->
     IF j - 1 < 3 * len * es
     THEN LET k == ((j - 1) \div 3) + 1
          IN  IF k <= Len(srcBytes) THEN srcBytes[k] ELSE Indet
     ELSE Indet]

\* The bytes the pixel loop of triplicate() leaves in the new array: element
\* 3i + k of the new array is element i of the original, for len pixels of
\* es bytes each.
TriplicateBytes(srcBytes, dstSize, len, es) ==
  [j \in 1..dstSize |->
     IF j - 1 < 3 * len * es
     THEN LET k == (((j - 1) \div es) \div 3) * es + ((j - 1) % es) + 1
          IN  IF k <= Len(srcBytes) THEN srcBytes[k] ELSE Indet
     ELSE Indet]

\* triplicate(): fail is the allocation throwing std::bad_alloc.
Triplicate(t, fail) ==
  /\ ~aborted
  /\ UNCHANGED copier
  /\ steps < MaxOps
  /\ steps' = steps + 1
  /\ t \in alive
  /\ IF tiles[t].channels # 1
     THEN /\ ~fail
          /\ last' = Did("triplicate", t, 0)
          /\ UNCHANGED <<tiles, heap, nbuf>>
     ELSE /\ tiles[t].data # NULL
          /\ heap[tiles[t].data].state = "live"
          /\ fail \/ nbuf < MaxBufs
          /\ LET old    == tiles[t]
                 buffer == old.data
                 mm     == old.memoryManaged
                 three  == [old EXCEPT !.channels = 3]
                 nb     == nbuf + 1
                 len    == old.width * old.height
                 es     == ElemBytes(old.bpc)
                 t1     == AllocTile(three, 0, nb)
                 heap1  == [AllocHeap(heap, three, 0, nb) EXCEPT
                              ![nb].bytes = TriplicateBytes(heap[buffer].bytes, Len(@), len, es)]
                 t2     == IF mm # 0 THEN DeallocTile(t1, buffer) ELSE t1
                 heap2  == IF mm # 0 THEN DeallocHeap(heap1, t1, buffer) ELSE heap1
             IN  IF fail
                 THEN /\ tiles' = [tiles EXCEPT ![t] = three]
                      /\ last' = [Did("triplicate", t, 0) EXCEPT !.fail = TRUE]
                      /\ UNCHANGED <<heap, nbuf>>
                 ELSE /\ tiles' = [tiles EXCEPT ![t] =
                                     [t2 EXCEPT !.capacity = len, !.dataLength = len]]
                      /\ heap' = Forget(heap2, tiles')
                      /\ nbuf' = nb
                      /\ last' = [Did("triplicate", t, 0) EXCEPT
                                    !.alloc = nb,
                                    !.rel = IF mm # 0 THEN DeallocRel(heap1, t1, buffer) ELSE {},
                                    !.oobRead = len * es > heap[buffer].size,
                                    !.oobWrite = 3 * len * es > heap1[nb].size]
  /\ xfer' = Touch(xfer, t)
  /\ UNCHANGED <<image, alive, deleted, aborted>>

\* The guard of the copying branch: tile.data && tile.dataLength > 0.
HasData(src) == src.data # NULL /\ src.dataLength > 0

\* allocate( src.dataLength ); memcpy( data, src.data, src.dataLength );
\* memoryManaged = 1, run on tile record dst: the tile afterwards.
CopiedTile(dst, src, nb) ==
  [AllocTile(dst, src.dataLength, nb) EXCEPT !.memoryManaged = 1]

\* The same statements: the free store afterwards.
CopiedHeap(hp, dst, src, nb) ==
  [AllocHeap(hp, dst, src.dataLength, nb) EXCEPT
     ![nb].bytes = Memcpy(@, hp[src.data].bytes, src.dataLength)]

\* What the copy of the same statements records: reads past the end of the
\* source array and writes past the end of the new one.
CopiedLast(l, hp, dst, src, nb) ==
  [l EXCEPT !.alloc = nb,
            !.oobRead = src.dataLength > hp[src.data].size,
            !.oobWrite = src.dataLength > AllocBytes(dst, src.dataLength)]

\* RawTile( const RawTile& tile ): tile d is constructed as a copy of tile s.
CopyCtor(s, d, fail) ==
  /\ ~aborted
  /\ UNCHANGED copier
  /\ steps < MaxOps
  /\ steps' = steps + 1
  /\ s \in alive
  /\ d \notin alive
  /\ \A u \in Tiles : u < d => u \in alive
  /\ LET src  == tiles[s]
         init == [src EXCEPT !.data = NULL]
         nb   == nbuf + 1
     IN  IF HasData(src)
         THEN /\ fail \/ nbuf < MaxBufs
              /\ IF fail
                 THEN /\ last' = [Did("copyCtor", d, s) EXCEPT !.fail = TRUE]
                      /\ UNCHANGED <<tiles, alive, heap, nbuf>>
                 ELSE /\ tiles' = [tiles EXCEPT ![d] = CopiedTile(init, src, nb)]
                      /\ alive' = alive \cup {d}
                      /\ heap' = Forget(CopiedHeap(heap, init, src, nb), tiles')
                      /\ nbuf' = nb
                      /\ last' = CopiedLast(Did("copyCtor", d, s), heap, init, src, nb)
         ELSE /\ ~fail
              /\ tiles' = [tiles EXCEPT ![d] = init]
              /\ alive' = alive \cup {d}
              /\ last' = Did("copyCtor", d, s)
              /\ UNCHANGED <<heap, nbuf>>
  /\ xfer' = Touch(xfer, d)
  /\ UNCHANGED <<image, deleted, aborted>>

\* operator=( const RawTile& tile ): tile s is copy-assigned to tile d.
CopyAssign(s, d, fail) ==
  /\ ~aborted
  /\ UNCHANGED copier
  /\ steps < MaxOps
  /\ steps' = steps + 1
  /\ s \in alive
  /\ d \in alive
  /\ LET src      == tiles[s]
         assigned == [src EXCEPT !.data = tiles[d].data]
         nb       == nbuf + 1
     IN  IF s = d
         THEN /\ ~fail
              /\ last' = Did("copyAssign", d, s)
              /\ UNCHANGED <<tiles, heap, nbuf>>
         ELSE IF HasData(src)
         THEN /\ fail \/ nbuf < MaxBufs
              /\ IF fail
                 THEN /\ tiles' = [tiles EXCEPT ![d] = assigned]
                      /\ last' = [Did("copyAssign", d, s) EXCEPT !.fail = TRUE]
                      /\ UNCHANGED <<heap, nbuf>>
                 ELSE /\ tiles' = [tiles EXCEPT ![d] = CopiedTile(assigned, src, nb)]
                      /\ heap' = Forget(CopiedHeap(heap, assigned, src, nb), tiles')
                      /\ nbuf' = nb
                      /\ last' = CopiedLast(Did("copyAssign", d, s), heap, assigned, src, nb)
         ELSE /\ ~fail
              /\ tiles' = [tiles EXCEPT ![d] = assigned]
              /\ heap' = Forget(heap, tiles')
              /\ last' = Did("copyAssign", d, s)
              /\ UNCHANGED nbuf
  /\ xfer' = Touch(xfer, d)
  /\ UNCHANGED <<image, alive, deleted, aborted>>

\* The state both move operations leave the source in after handing over its
\* buffer: tile.data = nullptr; dataLength = 0; capacity = 0; memoryManaged = 0.
MovedFrom(src) ==
  [src EXCEPT !.data = NULL, !.dataLength = 0, !.capacity = 0, !.memoryManaged = 0]

\* The destination of a move from an owning source: it takes the pointer.
Adopted(dst, src) == [dst EXCEPT !.data = src.data]

\* RawTile( RawTile&& tile ) noexcept: tile d is move-constructed from tile s.
\* A std::bad_alloc leaving a noexcept function ends the process.
MoveCtor(s, d, fail) ==
  /\ ~aborted
  /\ UNCHANGED copier
  /\ steps < MaxOps
  /\ steps' = steps + 1
  /\ s \in alive
  /\ d \notin alive
  /\ \A u \in Tiles : u < d => u \in alive
  /\ LET src  == tiles[s]
         init == [src EXCEPT !.data = NULL]
         nb   == nbuf + 1
     IN  IF src.memoryManaged = 1
         THEN /\ ~fail
              /\ tiles' = [tiles EXCEPT ![d] = Adopted(init, src), ![s] = MovedFrom(src)]
              /\ alive' = alive \cup {d}
              /\ xfer' = [from |-> s, to |-> d, buf |-> src.data]
              /\ last' = Did("moveCtor", d, s)
              /\ UNCHANGED <<heap, nbuf, aborted>>
         ELSE IF HasData(src)
         THEN /\ fail \/ nbuf < MaxBufs
              /\ IF fail
                 THEN /\ aborted' = TRUE
                      /\ last' = [Did("moveCtor", d, s) EXCEPT !.fail = TRUE]
                      /\ UNCHANGED <<tiles, alive, heap, nbuf>>
                 ELSE /\ tiles' = [tiles EXCEPT ![d] = CopiedTile(init, src, nb)]
                      /\ alive' = alive \cup {d}
                      /\ heap' = Forget(CopiedHeap(heap, init, src, nb), tiles')
                      /\ nbuf' = nb
                      /\ last' = CopiedLast(Did("moveCtor", d, s), heap, init, src, nb)
                      /\ UNCHANGED aborted
              /\ xfer' = Touch(Touch(xfer, s), d)
         ELSE /\ ~fail
              /\ tiles' = [tiles EXCEPT ![d] = init]
              /\ alive' = alive \cup {d}
              /\ xfer' = Touch(Touch(xfer, s), d)
              /\ last' = Did("moveCtor", d, s)
              /\ UNCHANGED <<heap, nbuf, aborted>>
  /\ UNCHANGED <<image, deleted>>

\* What `delete this` in the move assignment does to the destination before
\* its storage is handed to operator delete: the destructor runs.
DeleteThisTile(dst) ==
  IF dst.memoryManaged # 0 THEN DeallocTile(dst, dst.data) ELSE dst

DeleteThisHeap(hp, dst) ==
  IF dst.memoryManaged # 0 THEN DeallocHeap(hp, dst, dst.data) ELSE hp

DeleteThisRel(hp, dst) ==
  IF dst.memoryManaged # 0 THEN DeallocRel(hp, dst, dst.data) ELSE {}

\* What std::move( tile.filename ) may leave in the source: the standard only
\* says a valid string.
MovedStrings(str) == {"", str}

\* operator=( RawTile&& tile ) noexcept: tile s is move-assigned to tile d.
\* When the destination holds data the operator executes `delete this` on an
\* object it goes on using, which is undefined: survive = FALSE is the run
\* ending there (the free store rejects the pointer, or the process crashes),
\* survive = TRUE is the run going on with the object's storage released.
MoveAssign(s, d, fail, survive, fn) ==
  /\ ~aborted
  /\ UNCHANGED copier
  /\ steps < MaxOps
  /\ steps' = steps + 1
  /\ s \in alive
  /\ d \in alive
  /\ LET src      == tiles[s]
         dst      == tiles[d]
         deletes  == dst.data # NULL /\ dst.dataLength > 0
         dst0     == IF deletes THEN DeleteThisTile(dst) ELSE dst
         heap0    == IF deletes THEN DeleteThisHeap(heap, dst) ELSE heap
         rel0     == IF deletes THEN DeleteThisRel(heap, dst) ELSE {}
         assigned == [src EXCEPT !.data = dst0.data]
         src1     == [src EXCEPT !.filename = fn]
         nb       == nbuf + 1
         did      == [Did("moveAssign", d, s) EXCEPT !.rel = rel0]
     IN  IF s = d
         THEN /\ ~fail /\ survive /\ fn = src.filename
              /\ last' = Did("moveAssign", d, s)
              /\ xfer' = Touch(xfer, d)
              /\ UNCHANGED <<tiles, heap, nbuf, aborted, deleted>>
         ELSE IF deletes /\ ~survive
         THEN /\ ~fail /\ fn = src.filename
              /\ aborted' = TRUE
              /\ tiles' = [tiles EXCEPT ![d] = dst0]
              /\ heap' = Forget(heap0, tiles')
              /\ deleted' = deleted \cup {d}
              /\ xfer' = Touch(xfer, d)
              /\ last' = did
              /\ UNCHANGED nbuf
         ELSE /\ deletes \/ survive
              /\ fn \in MovedStrings(src.filename)
              /\ deleted' = IF deletes THEN deleted \cup {d} ELSE deleted
              /\ IF src.memoryManaged = 1
                 THEN /\ ~fail
                      /\ tiles' = [tiles EXCEPT ![d] = Adopted(assigned, src),
                                                ![s] = MovedFrom(src1)]
                      /\ heap' = Forget(heap0, tiles')
                      /\ xfer' = [from |-> s, to |-> d, buf |-> src.data]
                      /\ last' = did
                      /\ UNCHANGED <<nbuf, aborted>>
                 ELSE IF HasData(src)
                 THEN /\ fail \/ nbuf < MaxBufs
                      /\ IF fail
                         THEN /\ aborted' = TRUE
                              /\ tiles' = [tiles EXCEPT ![d] = assigned, ![s] = src1]
                              /\ heap' = Forget(heap0, tiles')
                              /\ last' = [did EXCEPT !.fail = TRUE]
                              /\ UNCHANGED nbuf
                         ELSE /\ tiles' = [tiles EXCEPT ![d] = CopiedTile(assigned, src, nb),
                                                        ![s] = src1]
                              /\ heap' = Forget(CopiedHeap(heap0, assigned, src, nb), tiles')
                              /\ nbuf' = nb
                              /\ last' = CopiedLast(did, heap0, assigned, src, nb)
                              /\ UNCHANGED aborted
                      /\ xfer' = Touch(Touch(xfer, s), d)
                 ELSE /\ ~fail
                      /\ tiles' = [tiles EXCEPT ![d] = assigned, ![s] = src1]
                      /\ heap' = Forget(heap0, tiles')
                      /\ xfer' = Touch(Touch(xfer, s), d)
                      /\ last' = did
                      /\ UNCHANGED <<nbuf, aborted>>
  /\ UNCHANGED <<image, alive>>

Next ==
  \/ \E t \in Tiles, w \in 1..MaxW, h \in 1..MaxH : Construct(t, t - 1, w, h)
  \/ \E t \in Tiles : ConstructDefault(t)
  \/ \E t \in Tiles : SetSampleType(t)
  \/ \E t \in Tiles, size \in 0..MaxSize, fail \in BOOLEAN : Allocate(t, size, fail)
  \/ \E t \in Tiles, len \in 1..(MaxW * MaxH * 12) : Populate(t, len)
  \/ \E t \in Tiles, len \in 1..(MaxW * MaxH * 12) : SetExternal(t, len)
  \/ \E t \in Tiles : Deallocate(t)
  \/ \E t \in Tiles : Destroy(t)
  \/ \E t \in Tiles, w \in 1..MaxW, h \in 1..MaxH, fail \in BOOLEAN : Crop(t, w, h, fail)
  \/ \E t \in Tiles, fail \in BOOLEAN : Triplicate(t, fail)
  \/ \E s, d \in Tiles, fail \in BOOLEAN : CopyCtor(s, d, fail)
  \/ \E s, d \in Tiles, fail \in BOOLEAN : CopyAssign(s, d, fail)
  \/ \E s, d \in Tiles, fail \in BOOLEAN : MoveCtor(s, d, fail)
  \/ \E s, d \in Tiles, fail, survive \in BOOLEAN, fn \in Filenames :
        MoveAssign(s, d, fail, survive, fn)

Spec == Init /\ [][Next]_vars

\* ------------------------------------------------- reshaping a full tile
\* The formats of the tiles handed to crop() and triplicate().
ReshapeFormats ==
  {f \in [channels : 1..MaxRChan, bpc : Bpcs, sampleType : SampleTypes] :
     f.sampleType = "FLOATINGPOINT" => f.bpc = 32}

\* A tile of format f that was constructed, allocated with the default size
\* and filled completely by a producer; its array has pointer b.
PopulatedTile(w, h, f, b) ==
  [NewTile(0, 0, 0, 0, w, h, f.channels, f.bpc) EXCEPT
     !.sampleType = f.sampleType,
     !.data = b,
     !.capacity = w * h * f.channels * (f.bpc \div 8),
     !.dataLength = w * h * f.channels * (f.bpc \div 8)]

\* The array of such a tile: byte i holds the value i.
PopulatedBuf(t) ==
  [ state |-> "live", etype |-> AllocType(t.bpc, t.sampleType),
    size |-> t.capacity, ext |-> FALSE, bytes |-> [i \in 1..t.capacity |-> i] ]

\* The state after one tile has been constructed, allocated and populated.
InitReshape ==
  /\ image \in ReshapeFormats
  /\ \E w \in 1..MaxRW, h \in 1..MaxRH :
       tiles = [t \in Tiles |->
                  IF t = 1 THEN PopulatedTile(w, h, image, 1) ELSE NoTile]
  /\ alive = {1}
  /\ deleted = {}
  /\ heap = [b \in BufIds |-> IF b = 1 THEN PopulatedBuf(tiles[1]) ELSE NoBuf]
  /\ nbuf = 1
  /\ aborted = FALSE
  /\ xfer = NoXfer
  /\ last = Did("populate", 1, 0)
  /\ steps = 0
  /\ copier = NoCopier

NextReshape ==
  \/ \E t \in Tiles, w \in 1..MaxRW, h \in 1..MaxRH, fail \in BOOLEAN : Crop(t, w, h, fail)
  \/ \E t \in Tiles, fail \in BOOLEAN : Triplicate(t, fail)

SpecReshape == InitReshape /\ [][NextReshape]_vars

\* ------------------------------------------------------ comparing tiles
\* operator==( A, B ) with one more field compared than the class compares.
OpEqWithWidth(A, B) ==
  IF /\ A.tileNum = B.tileNum
     /\ A.resolution = B.resolution
     /\ A.hSequence = B.hSequence
     /\ A.vSequence = B.vSequence
     /\ A.compressionType = B.compressionType
     /\ A.quality = B.quality
     /\ A.filename = B.filename
     /\ A.width = B.width
  THEN 1 ELSE 0

\* friend int operator==( const RawTile& A, const RawTile& B )
OpEq(A, B) ==
  IF /\ A.tileNum = B.tileNum
     /\ A.resolution = B.resolution
     /\ A.hSequence = B.hSequence
     /\ A.vSequence = B.vSequence
     /\ A.compressionType = B.compressionType
     /\ A.quality = B.quality
     /\ A.filename = B.filename
  THEN 1 ELSE 0

\* friend int operator!=( const RawTile& A, const RawTile& B )
OpNe(A, B) ==
  IF /\ A.tileNum = B.tileNum
     /\ A.resolution = B.resolution
     /\ A.hSequence = B.hSequence
     /\ A.vSequence = B.vSequence
     /\ A.compressionType = B.compressionType
     /\ A.quality = B.quality
     /\ A.filename = B.filename
  THEN 0 ELSE 1

\* The values the placement and provenance fields of a compared tile take.
IdentVals == 0..MaxIdent
Encodings == {"RAW", "JPEG"}
Names     == {"", "a"}

\* A tile whose compared fields are chosen freely.
Identified(base, tn, res, hs, vs, ct, q, fn) ==
  [base EXCEPT !.tileNum = tn, !.resolution = res, !.hSequence = hs,
               !.vSequence = vs, !.compressionType = ct, !.quality = q,
               !.filename = fn]

\* The fields operator== does not read, as two tiles can have them: an empty
\* tile, and a 1x1 one-channel 32-bit float tile that borrows a filled buffer.
EmptyShape == NewTile(0, 0, 0, 0, 0, 0, 0, 0)
FullShape ==
  [PopulatedTile(1, 1, [channels |-> 1, bpc |-> 32, sampleType |-> "FLOATINGPOINT"], 1)
     EXCEPT !.timestamp = 1, !.memoryManaged = 0]

\* Two tiles exist; the fields of both are chosen freely.
InitCompare ==
  /\ image = [channels |-> 1, bpc |-> 32, sampleType |-> "FLOATINGPOINT"]
  /\ \E shape \in {EmptyShape, FullShape} :
     \E tnA, resA, hsA, vsA, qA, tnB, resB, hsB, vsB, qB \in IdentVals :
     \E ctA, ctB \in Encodings :
     \E fnA, fnB \in Names :
       tiles = [t \in Tiles |->
                  IF t = 1 THEN Identified(EmptyShape, tnA, resA, hsA, vsA, ctA, qA, fnA)
                  ELSE IF t = 2 THEN Identified(shape, tnB, resB, hsB, vsB, ctB, qB, fnB)
                  ELSE NoTile]
  /\ alive = {1, 2}
  /\ deleted = {}
  /\ heap = [b \in BufIds |->
               IF b = 1 /\ tiles[2].data = 1 THEN ExternalBuf(tiles[2].capacity) ELSE NoBuf]
  /\ nbuf = IF tiles[2].data = 1 THEN 1 ELSE 0
  /\ aborted = FALSE
  /\ xfer = NoXfer
  /\ last = NoLast
  /\ steps = 0
  /\ copier = NoCopier

\* The caller evaluates a == b and a != b; neither changes a tile.
Compare(a, b) ==
  /\ ~aborted
  /\ UNCHANGED copier
  /\ a \in alive
  /\ b \in alive
  /\ last' = [Did("compare", a, b) EXCEPT
                !.args = <<OpEq(tiles[a], tiles[b]), OpNe(tiles[a], tiles[b])>>]
  /\ UNCHANGED <<image, tiles, alive, deleted, heap, nbuf, aborted, xfer, steps>>

NextCompare == \E a, b \in Tiles : Compare(a, b)

SpecCompare == InitCompare /\ [][NextCompare]_vars

\* --------------------------------------------- allocate with large fields
\* Unsigned integers wider than the checker's are kept as little-endian
\* sequences of base-256 digits; a uint32_t is four digits.
Digits(n) ==
  << n % 256, (n \div 256) % 256, (n \div 65536) % 256, (n \div 16777216) % 256 >>

\* Digit k of the product of a and b before carries: the sum of a[i] * b[j]
\* over i + j = k + 1, taken from i upwards.
RECURSIVE ConvSum(_, _, _, _)
ConvSum(a, b, k, i) ==
  IF i > Len(a) THEN 0
  ELSE (IF k - i + 1 \in 1..Len(b) THEN a[i] * b[k - i + 1] ELSE 0)
         + ConvSum(a, b, k, i + 1)

\* The digits of the product of a and b from digit k on, c being the carry.
RECURSIVE Carried(_, _, _, _)
Carried(a, b, k, c) ==
  IF k > Len(a) + Len(b) THEN << >>
  ELSE LET sum == ConvSum(a, b, k, 1) + c
       IN  << sum % 256 >> \o Carried(a, b, k + 1, sum \div 256)

\* The exact product of two digit sequences.
MulDigits(a, b) == Carried(a, b, 1, 0)

\* The product of two uint32_t values as C++ computes it: modulo 2^32.
Mul32(a, b) == SubSeq(MulDigits(a, b), 1, 4)

\* A digit sequence is zero.
IsZero(d) == \A i \in 1..Len(d) : d[i] = 0

\* Two digit sequences denote the same number.
SameNumber(a, b) ==
  /\ \A i \in 1..Min(Len(a), Len(b)) : a[i] = b[i]
  /\ \A i \in (Min(Len(a), Len(b)) + 1)..Len(a) : a[i] = 0
  /\ \A i \in (Min(Len(a), Len(b)) + 1)..Len(b) : b[i] = 0

\* if( size == 0 ) size = (uint32_t) width * height * channels * (bpc/8);
AllocSize32(t, size) ==
  IF IsZero(size)
  THEN Mul32(Mul32(Mul32(Digits(t.width), Digits(t.height)), Digits(t.channels)),
             Digits(t.bpc \div 8))
  ELSE size

\* Widths, heights and channel counts the fields can hold, and sizes a caller
\* can pass.
WideDims  == {1, 2, 4096, 32768, 65535, 65536}
WideChans == {1, 3, 4}
WideSizes == {0, 1, 65536}

\* One tile has been constructed; capacity is kept as a uint32_t in digits.
InitWide ==
  /\ image \in Formats
  /\ \E w, h \in WideDims, c \in WideChans :
       tiles = [t \in Tiles |->
                  IF t = 1
                  THEN [NewTile(0, 0, 0, 0, w, h, c, image.bpc) EXCEPT
                          !.sampleType = image.sampleType, !.capacity = Digits(0)]
                  ELSE NoTile]
  /\ alive = {1}
  /\ deleted = {}
  /\ heap = [b \in BufIds |-> NoBuf]
  /\ nbuf = 0
  /\ aborted = FALSE
  /\ xfer = NoXfer
  /\ last = NoLast
  /\ steps = 0
  /\ copier = NoCopier

\* allocate( size ) on a tile with large fields: the array's contents are left
\* out, its size is the uint32_t the code computed.
AllocateWide(t, size) ==
  /\ ~aborted
  /\ UNCHANGED copier
  /\ steps < MaxOps
  /\ steps' = steps + 1
  /\ t \in alive
  /\ nbuf < MaxBufs
  /\ tiles' = [tiles EXCEPT ![t].data = nbuf + 1,
                            ![t].memoryManaged = 1,
                            ![t].capacity = AllocSize32(tiles[t], Digits(size))]
  /\ heap' = [heap EXCEPT ![nbuf + 1] =
                 [ state |-> "live", etype |-> AllocType(tiles[t].bpc, tiles[t].sampleType),
                   size |-> AllocSize32(tiles[t], Digits(size)), ext |-> FALSE,
                   bytes |-> << >> ]]
  /\ nbuf' = nbuf + 1
  /\ last' = [Did("allocate", t, 0) EXCEPT !.args = <<size>>, !.alloc = nbuf + 1]
  /\ UNCHANGED <<image, alive, deleted, aborted, xfer>>

NextWide == \E t \in Tiles, size \in WideSizes : AllocateWide(t, size)

SpecWide == InitWide /\ [][NextWide]_vars

\* --------------------------------------- copying while the owner works
\* A second thread runs RawTile( const RawTile& tile ) on tile s while the
\* thread that owns s goes on using it.  The class takes no lock, so the steps
\* of the constructor interleave with the owner's operations: the test
\* tile.data && tile.dataLength > 0, allocate( tile.dataLength ), the
\* evaluation of the arguments of memcpy( data, tile.data, tile.dataLength ),
\* and memcpy reading the bytes.  The copy and its array are local to the
\* copying thread: copier.buf holds the array's bytes.

\* The member initialiser list and the test tile.data && tile.dataLength > 0.
CopyReadFields(s) ==
  /\ ~aborted
  /\ copier.pc = "idle"
  /\ s \in alive
  /\ copier' = [copier EXCEPT
                  !.pc = IF HasData(tiles[s]) THEN "allocate" ELSE "done",
                  !.s = s,
                  !.dst = [tiles[s] EXCEPT !.data = NULL]]
  /\ UNCHANGED <<image, tiles, alive, deleted, heap, nbuf, aborted, xfer, last, steps>>

\* allocate( tile.dataLength ): the length is read from the source.
CopyAllocate ==
  /\ ~aborted
  /\ copier.pc = "allocate"
  /\ copier' = [copier EXCEPT
                  !.pc = "args",
                  !.dst = [@ EXCEPT !.memoryManaged = 1,
                                    !.capacity = AllocSize(copier.dst,
                                                           tiles[copier.s].dataLength)],
                  !.buf = FreshBuf(copier.dst, tiles[copier.s].dataLength).bytes]
  /\ UNCHANGED <<image, tiles, alive, deleted, heap, nbuf, aborted, xfer, last, steps>>

\* The arguments of memcpy are evaluated: tile.data and tile.dataLength.
CopyReadArgs ==
  /\ ~aborted
  /\ copier.pc = "args"
  /\ copier' = [copier EXCEPT !.pc = "memcpy",
                              !.ptr = tiles[copier.s].data,
                              !.len = tiles[copier.s].dataLength]
  /\ UNCHANGED <<image, tiles, alive, deleted, heap, nbuf, aborted, xfer, last, steps>>

\* memcpy reads len bytes behind the pointer; then memoryManaged = 1.
CopyBytes ==
  /\ ~aborted
  /\ copier.pc = "memcpy"
  /\ LET ok == copier.ptr # NULL /\ heap[copier.ptr].state = "live"
     IN  copier' = [copier EXCEPT
                      !.pc = "done",
                      !.dst = [@ EXCEPT !.memoryManaged = 1],
                      !.buf = IF ok THEN Memcpy(@, heap[copier.ptr].bytes, copier.len)
                              ELSE [i \in 1..Len(@) |-> Indet],
                      !.readReleased = copier.len > 0 /\ ~ok]
  /\ UNCHANGED <<image, tiles, alive, deleted, heap, nbuf, aborted, xfer, last, steps>>

\* One populated tile exists and no copy has started.
InitConcurrent ==
  /\ image \in Formats
  /\ \E w \in 1..MaxW, h \in 1..MaxH :
       tiles = [t \in Tiles |->
                  IF t = 1 THEN PopulatedTile(w, h, image, 1) ELSE NoTile]
  /\ alive = {1}
  /\ deleted = {}
  /\ heap = [b \in BufIds |-> IF b = 1 THEN PopulatedBuf(tiles[1]) ELSE NoBuf]
  /\ nbuf = 1
  /\ aborted = FALSE
  /\ xfer = NoXfer
  /\ last = Did("populate", 1, 0)
  /\ steps = 0
  /\ copier = NoCopier

\* The owner's operations on its tiles and the copying thread's steps.
NextConcurrent ==
  \/ \E t \in Tiles, len \in 1..(MaxW * MaxH * 12) : Populate(t, len)
  \/ \E t \in Tiles, w \in 1..MaxW, h \in 1..MaxH : Crop(t, w, h, FALSE)
  \/ \E t \in Tiles : Triplicate(t, FALSE)
  \/ \E s, d \in Tiles : MoveCtor(s, d, FALSE)
  \/ \E t \in Tiles : Destroy(t)
  \/ \E s \in Tiles : CopyReadFields(s)
  \/ CopyAllocate
  \/ CopyReadArgs
  \/ CopyBytes

SpecConcurrent == InitConcurrent /\ [][NextConcurrent]_vars

\* ---------------------------------------------------------------- claims
Moves  == {"moveCtor", "moveAssign"}
Copies == {"copyCtor", "copyAssign"}

\* The tile currently owns an allocation: its flag is set and its pointer
\* refers to an array that has not been released.
Owns(t) ==
  /\ tiles[t].memoryManaged # 0
  /\ tiles[t].data # NULL
  /\ heap[tiles[t].data].state = "live"

\* C1: no array that was supplied to a tile by an external producer is ever
\* passed to delete[] by a tile.
C1_ExternalNeverReleased ==
  \A b \in BufIds : heap[b].ext => heap[b].state # "freed"

\* C2: a move (constructor or assignment) from a source that owns an array
\* completes and hands the very pointer to the destination without allocating,
\* and leaves the source with a null pointer, dataLength 0, capacity 0 and the
\* flag clear; destroying that source then releases nothing, and destroying the
\* destination passes the transferred pointer, and nothing else, to delete[].
C2_Step ==
  /\ ( /\ last'.op \in Moves
       /\ last'.s # last'.t
       /\ Owns(last'.s) )
     => /\ ~aborted'
        /\ tiles'[last'.t].data = tiles[last'.s].data
        /\ nbuf' = nbuf
        /\ tiles'[last'.s].data = NULL
        /\ tiles'[last'.s].dataLength = 0
        /\ tiles'[last'.s].capacity = 0
        /\ tiles'[last'.s].memoryManaged = 0
  /\ (last'.op = "destroy" /\ last'.role = "movedFrom")
     => /\ last'.rel = {}
        /\ \A b \in BufIds : heap'[b].state = heap[b].state
  /\ (last'.op = "destroy" /\ last'.role = "movedTo" /\ xfer.buf # NULL)
     => /\ {r.buf : r \in last'.rel} = {xfer.buf}
        /\ heap'[xfer.buf].state = "freed"

C2_MoveTransfersOwnership == [][C2_Step]_vars

\* C3: in every reachable state of every tile, dataLength <= capacity.
C3_DataLengthWithinCapacity ==
  \A t \in alive : tiles[t].dataLength <= tiles[t].capacity

\* C4: for every tile whose ownership flag is set, capacity = 0 and a null
\* pointer hold exactly when the tile owns no allocation; and deallocate of the
\* tile's own buffer leaves capacity = 0 and the pointer null.
C4_EmptyIffNothingOwned ==
  /\ \A t \in alive :
       tiles[t].memoryManaged # 0 =>
         ((tiles[t].capacity = 0 /\ tiles[t].data = NULL) <=> ~Owns(t))
  /\ last.op = "deallocate" =>
       (tiles[last.t].capacity = 0 /\ tiles[last.t].data = NULL)

\* C5: after a successful crop, and after a triplicate that reshaped the tile,
\* dataLength = width * height * channels * (bpc/8) of the fields as they stand.
C5_ReshapeLengthMatchesGeometry ==
  (last.op \in {"crop", "triplicate"} /\ last.alloc # NULL) =>
     tiles[last.t].dataLength =
       tiles[last.t].width * tiles[last.t].height * tiles[last.t].channels
         * (tiles[last.t].bpc \div 8)

\* C6: every array a tile obtained with new[] and passes to delete[] is passed
\* with the element type it was allocated with.
C6_ReleaseTypeMatchesAllocation ==
  \A r \in last.rel : (~r.ext /\ r.was = "live") => r.dtype = r.etype

\* C7: a copy (constructor or assignment) from a source that holds data leaves
\* the destination owning a new array, different from the source's, that holds
\* the source's dataLength bytes, and leaves the source's fields and array as
\* they were.
C7_Step ==
  ( /\ last'.op \in Copies
    /\ last'.s # last'.t
    /\ ~last'.fail
    /\ HasData(tiles[last'.s]) )
  => LET src == tiles[last'.s]
         dst == tiles'[last'.t]
     IN  /\ dst.data # NULL
         /\ dst.data # src.data
         /\ heap[dst.data].state = "unused"
         /\ heap'[dst.data].state = "live"
         /\ dst.memoryManaged = 1
         /\ dst.dataLength = src.dataLength
         /\ tiles'[last'.s] = src
         /\ heap'[src.data] = heap[src.data]
         /\ \A i \in 1..src.dataLength :
              /\ i <= Len(heap[src.data].bytes)
              /\ i <= Len(heap'[dst.data].bytes)
              /\ heap'[dst.data].bytes[i] = heap[src.data].bytes[i]

C7_CopyIsFullCopy == [][C7_Step]_vars

\* C8: a move (constructor or assignment) from a source whose ownership flag is
\* clear and that holds data never takes the source's pointer: the destination
\* ends owning a new array that holds the source's dataLength bytes, and the
\* source's pointer, dataLength, capacity and flag are as they were.
C8_Step ==
  ( /\ last'.op \in Moves
    /\ last'.s # last'.t
    /\ ~aborted'
    /\ tiles[last'.s].memoryManaged = 0
    /\ HasData(tiles[last'.s]) )
  => LET src == tiles[last'.s]
         dst == tiles'[last'.t]
     IN  /\ dst.data # NULL
         /\ dst.data # src.data
         /\ heap[dst.data].state = "unused"
         /\ heap'[dst.data].state = "live"
         /\ dst.memoryManaged = 1
         /\ tiles'[last'.s].data = src.data
         /\ tiles'[last'.s].dataLength = src.dataLength
         /\ tiles'[last'.s].capacity = src.capacity
         /\ tiles'[last'.s].memoryManaged = src.memoryManaged
         /\ \A i \in 1..src.dataLength :
              /\ i <= Len(heap[src.data].bytes)
              /\ i <= Len(heap'[dst.data].bytes)
              /\ heap'[dst.data].bytes[i] = heap[src.data].bytes[i]

C8_MoveFromBorrowerCopies == [][C8_Step]_vars

\* C9: when the allocation inside crop, triplicate, copy assignment or move
\* assignment fails, every field of the tile is as it was before the call.
C9_Step ==
  (last'.fail /\ last'.op \in {"crop", "triplicate", "copyAssign", "moveAssign"})
  => tiles'[last'.t] = tiles[last'.t]

C9_FailureLeavesTileUnchanged == [][C9_Step]_vars

\* C10: a crop asked for more columns or rows than the tile has reads no byte
\* outside the tile's buffer and leaves the tile and its buffer as they were.
C10_Step ==
  ( /\ last'.op = "crop"
    /\ ~last'.fail
    /\ \/ last'.args[1] > tiles[last'.t].width
       \/ last'.args[2] > tiles[last'.t].height )
  => /\ ~last'.oobRead
     /\ tiles'[last'.t] = tiles[last'.t]
     /\ heap' = heap

C10_OversizedCropIsRejected == [][C10_Step]_vars

\* The tile holds a live array that is exactly as large as its geometry says
\* and is completely filled.
Populated(t) ==
  /\ tiles[t].data # NULL
  /\ heap[tiles[t].data].state = "live"
  /\ tiles[t].dataLength = tiles[t].width * tiles[t].height * tiles[t].channels
                              * (tiles[t].bpc \div 8)
  /\ heap[tiles[t].data].size = tiles[t].dataLength
  /\ tiles[t].dataLength > 0

\* C11: crop( w, h ) of a populated tile with w <= width and h <= height leaves
\* width = w, height = h, capacity = dataLength = w * h * channels * (bpc/8),
\* and scanline r of the new array is the first w * channels * (bpc/8) bytes of
\* scanline r of the original array, for every r < h.
C11_Step ==
  ( /\ last'.op = "crop"
    /\ ~last'.fail
    /\ Populated(last'.t)
    /\ last'.args[1] <= tiles[last'.t].width
    /\ last'.args[2] <= tiles[last'.t].height )
  => LET old  == tiles[last'.t]
         new  == tiles'[last'.t]
         w    == last'.args[1]
         h    == last'.args[2]
         dlen == w * old.channels * (old.bpc \div 8)
         slen == old.width * old.channels * (old.bpc \div 8)
     IN  /\ new.width = w
         /\ new.height = h
         /\ new.capacity = h * dlen
         /\ new.dataLength = h * dlen
         /\ new.data # NULL
         /\ heap'[new.data].state = "live"
         /\ Len(heap'[new.data].bytes) = h * dlen
         /\ ~last'.oobRead
         /\ ~last'.oobWrite
         /\ \A r \in 0..(h - 1) : \A j \in 1..dlen :
              heap'[new.data].bytes[r * dlen + j] = heap[old.data].bytes[r * slen + j]

C11_CropKeepsTopLeft == [][C11_Step]_vars

\* Reached: a 4x4 one-channel 8-bit tile holding 1..16 was cropped to 2x2 and
\* holds the top left samples of its first two scanlines.
C11_Witness ==
  /\ last.op = "crop"
  /\ last.args = <<2, 2>>
  /\ tiles[last.t].bpc = 8
  /\ tiles[last.t].channels = 1
  /\ tiles[last.t].width = 2
  /\ tiles[last.t].height = 2
  /\ heap[tiles[last.t].data].bytes = <<1, 2, 5, 6>>

\* C12: triplicate() of a populated one-channel tile of N = width * height
\* pixels leaves a three-channel tile whose samples 3i, 3i+1 and 3i+2 all equal
\* sample i of the original, with width, height, bpc and sampleType as they
\* were; on a tile whose channels # 1 it changes nothing.
C12_Step ==
  /\ ( /\ last'.op = "triplicate"
       /\ ~last'.fail
       /\ Populated(last'.t)
       /\ tiles[last'.t].channels = 1 )
     => LET old == tiles[last'.t]
            new == tiles'[last'.t]
            N   == old.width * old.height
            es  == old.bpc \div 8
        IN  /\ new.channels = 3
            /\ new.width = old.width
            /\ new.height = old.height
            /\ new.bpc = old.bpc
            /\ new.sampleType = old.sampleType
            /\ new.data # NULL
            /\ heap'[new.data].state = "live"
            /\ Len(heap'[new.data].bytes) = 3 * N * es
            /\ ~last'.oobRead
            /\ ~last'.oobWrite
            /\ \A i \in 0..(N - 1) : \A k \in 0..2 : \A b \in 1..es :
                 heap'[new.data].bytes[(3 * i + k) * es + b]
                   = heap[old.data].bytes[i * es + b]
  /\ ( /\ last'.op = "triplicate"
       /\ tiles[last'.t].channels # 1 )
     => /\ tiles'[last'.t] = tiles[last'.t]
        /\ heap' = heap

C12_TriplicateRepeatsSamples == [][C12_Step]_vars

\* Reached: a 2x1 one-channel 16-bit tile holding the samples (1,2) and (3,4)
\* was triplicated.
C12_Witness ==
  /\ last.op = "triplicate"
  /\ last.alloc # NULL
  /\ tiles[last.t].channels = 3
  /\ tiles[last.t].bpc = 16
  /\ heap[tiles[last.t].data].bytes = <<1, 2, 1, 2, 1, 2, 3, 4, 3, 4, 3, 4>>

\* C13: A == B is true exactly when tileNum, resolution, hSequence, vSequence,
\* compressionType, quality and filename are pairwise equal, whatever the other
\* fields and the buffers hold, and A != B is its negation.
C13_EqualityIsIdentity ==
  last.op = "compare" =>
    LET A == tiles[last.t]
        B == tiles[last.s]
    IN  /\ (last.args[1] = 1) <=>
             ( /\ A.tileNum = B.tileNum
               /\ A.resolution = B.resolution
               /\ A.hSequence = B.hSequence
               /\ A.vSequence = B.vSequence
               /\ A.compressionType = B.compressionType
               /\ A.quality = B.quality
               /\ A.filename = B.filename )
        /\ last.args[1] \in {0, 1}
        /\ last.args[2] = 1 - last.args[1]

\* Reached: two tiles that differ in geometry, format, timestamp, capacity,
\* dataLength, ownership flag and buffer compared equal.
C13_Witness ==
  /\ last.op = "compare"
  /\ last.args = <<1, 0>>
  /\ tiles[last.t].width # tiles[last.s].width
  /\ tiles[last.t].bpc # tiles[last.s].bpc
  /\ tiles[last.t].sampleType # tiles[last.s].sampleType
  /\ tiles[last.t].timestamp # tiles[last.s].timestamp
  /\ tiles[last.t].capacity # tiles[last.s].capacity
  /\ tiles[last.t].dataLength # tiles[last.s].dataLength
  /\ tiles[last.t].memoryManaged # tiles[last.s].memoryManaged
  /\ tiles[last.t].data # tiles[last.s].data

\* C14: allocate() without a size leaves capacity = width * height * channels
\* * (bpc/8), allocate( size ) with size > 0 leaves capacity = size, and either
\* way the flag is set and the pointer is not null.
C14_CapacityIsTheSizeAsked ==
  last.op = "allocate" =>
    LET t == tiles[last.t]
    IN  /\ t.memoryManaged = 1
        /\ t.data # NULL
        /\ last.args[1] > 0 => SameNumber(t.capacity, Digits(last.args[1]))
        /\ last.args[1] = 0 =>
             SameNumber(t.capacity,
                        MulDigits(MulDigits(MulDigits(Digits(t.width), Digits(t.height)),
                                            Digits(t.channels)),
                                  Digits(t.bpc \div 8)))

\* C15: whatever the owner of a tile does to it between the steps of a copy
\* taken by another thread, no step of the copy changes a tile or an array, and
\* the copy never reads an array that has been released.
C15_Step ==
  copier' # copier =>
    /\ tiles' = tiles
    /\ heap' = heap
    /\ ~copier'.readReleased

C15_CopyIsSafeBesideOwner == [][C15_Step]_vars

\* C16: a crop, and a triplicate of a one-channel tile, passes the tile's
\* original array to delete[] exactly when the ownership flag was set on entry;
\* either way the tile ends with the flag set and a newly allocated array other
\* than the original; an original that was borrowed (flag clear) stays
\* allocated with its contents as they were.
C16_Step ==
  ( /\ last'.op \in {"crop", "triplicate"}
    /\ ~last'.fail
    /\ last'.alloc # NULL )
  => LET old == tiles[last'.t]
         new == tiles'[last'.t]
     IN  /\ (old.memoryManaged # 0) <=> (heap'[old.data].state = "freed")
         /\ (old.memoryManaged # 0) <=> (\E r \in last'.rel : r.buf = old.data)
         /\ \A r \in last'.rel : r.buf = old.data
         /\ old.memoryManaged = 0 => heap'[old.data].state = "live"
         /\ (old.memoryManaged = 0 /\ heap[old.data].ext)
              => heap'[old.data] = heap[old.data]
         /\ new.memoryManaged = 1
         /\ new.data # NULL
         /\ new.data # old.data
         /\ heap[new.data].state = "unused"
         /\ heap'[new.data].state = "live"

C16_ReshapeReleasesOnlyOwned == [][C16_Step]_vars

\* Reached: a tile that borrowed an external array was cropped or triplicated
\* and now owns a new array, the external one still being allocated.
C16_Witness ==
  /\ last.op \in {"crop", "triplicate"}
  /\ last.alloc # NULL
  /\ last.rel = {}
  /\ tiles[last.t].memoryManaged = 1
  /\ \E b \in BufIds : heap[b].ext /\ heap[b].state = "live" /\ heap[b].size > 0

\* C17: allocate( size ) passes nothing to delete[] and changes only the data
\* pointer, capacity and the ownership flag of the tile: every other field, every
\* other tile, and every array that existed before, the one the tile pointed to
\* included, are as they were.
C17_Step ==
  (last'.op = "allocate" /\ ~last'.fail)
  => LET old == tiles[last'.t]
         new == tiles'[last'.t]
     IN  /\ last'.rel = {}
         /\ new = [old EXCEPT !.data = new.data, !.capacity = new.capacity,
                              !.memoryManaged = new.memoryManaged]
         /\ \A u \in Tiles \ {last'.t} : tiles'[u] = tiles[u]
         /\ \A b \in BufIds \ {new.data} :
              /\ heap'[b].state = heap[b].state
              /\ (heap[b].ext \/ \E u \in Tiles : tiles'[u].data = b)
                   => heap'[b] = heap[b]
         /\ heap[new.data].state = "unused"

C17_AllocateTouchesOnlyTheBuffer == [][C17_Step]_vars

\* Reached: allocate was called on a tile that held data; the tile has a new
\* array, its dataLength is what it was and the former array is still
\* allocated.
C17_Witness ==
  /\ last.op = "allocate"
  /\ ~last.fail
  /\ tiles[last.t].dataLength > 0
  /\ tiles[last.t].data = last.alloc
  /\ \E b \in BufIds \ {last.alloc} :
       /\ heap[b].state = "live"
       /\ ~heap[b].ext
       /\ \A u \in Tiles : tiles[u].data # b

\* C18: no array is passed to delete[] a second time: whatever a tile releases
\* was allocated and not yet released at that moment.
C18_NoDoubleRelease ==
  \A r \in last.rel : r.was # "freed"

\* C19: a copy assignment or move assignment that replaces the data pointer of
\* a destination owning an array of its own passes that array to delete[], so
\* that it is not left allocated with no tile pointing to it.
C19_Step ==
  ( /\ last'.op \in {"copyAssign", "moveAssign"}
    /\ last'.s # last'.t
    /\ ~last'.fail
    /\ ~aborted'
    /\ Owns(last'.t)
    /\ ~heap[tiles[last'.t].data].ext
    /\ tiles'[last'.t].data # tiles[last'.t].data )
  => heap'[tiles[last'.t].data].state = "freed"

C19_AssignReleasesPrevious == [][C19_Step]_vars

\* C20: allocate, deallocate, crop and triplicate leave the tile comparing
\* equal (operator==) to what it was before the call, and the destination of a
\* copy or move, constructor or assignment, compares equal to the source as it
\* was before the operation.
C20_Step ==
  /\ last'.op \in {"allocate", "deallocate", "crop", "triplicate"}
       => OpEq(tiles'[last'.t], tiles[last'.t]) = 1
  /\ (last'.op \in Copies \cup Moves /\ last'.s # last'.t /\ ~last'.fail)
       => /\ ~aborted'
          /\ OpEq(tiles'[last'.t], tiles[last'.s]) = 1

C20_IdentityIsPreserved == [][C20_Step]_vars

====
